---- MODULE Spec2Model ----
(***************************************************************************)
(* Model of the Grid SDK command-line client (src/index.ts).               *)
(*                                                                         *)
(* The program is one sequential script: it reads its configuration from  *)
(* the environment, builds the API client and the RPC connection, and then *)
(* runs a menu loop dispatching to the login, balance, USDC-transfer and   *)
(* SOL-transfer flows.  Every await (a prompt or a remote call) is one     *)
(* step of the model; the variable pc is the position of the script.  The  *)
(* remote collaborators (Grid API, Solana RPC) and the user are the        *)
(* environment: their answers are drawn with \E from small sets.           *)
(*                                                                         *)
(* Strings the code inspects character by character (amounts, addresses,   *)
(* error messages) are sequences: of characters for amounts, of words for  *)
(* error messages, of address tokens for recipient addresses.              *)
(***************************************************************************)
EXTENDS Integers, Sequences, FiniteSets, TLC

VARIABLES
    pc,               \* position of the script
    flow,             \* the menu choice being served (or last served)
    entry,            \* userSession and sessionSecrets when that choice was made
    userSession,      \* let userSession (index.ts:41)
    sessionSecrets,   \* let sessionSecrets (index.ts:42)
    secretsGenerated, \* number of generateSessionSecrets results so far
    email,            \* loginOrRegister: the email answer
    isNewUser,        \* verifyOtp: parameter isNewUser
    otp,              \* verifyOtp: the otp answer
    recipientAddress, \* transfer flows: the recipientAddress answer
    amount,           \* transfer flows: the amount answer
    calls,            \* remote calls issued by the current flow invocation
    prompts,          \* prompts shown by the current flow invocation
    out,              \* outcome lines printed by the current flow invocation
    lastValidation,   \* message of the last rejected prompt input, or Undefined
    lastAnswer,       \* the answer last typed at a transfer prompt
    processEnv,       \* process.env after dotenv.config() (index.ts:15)
    gridClient,       \* let gridClient (index.ts:40)
    solanaConnection, \* let solanaConnection (index.ts:43)
    exitCode,         \* status the process ended with, or Undefined
    argv,             \* process.argv after the script path (index.ts:24)
    details,          \* values printed by the current flow invocation:
                      \* explorer links and token balances
    completedWith     \* the secrets sent in the completion call whose
                      \* response is the stored session

vars == <<pc, flow, entry, userSession, sessionSecrets, secretsGenerated, email,
          isNewUser, otp, recipientAddress, amount, calls, prompts, out,
          lastValidation, lastAnswer, processEnv, gridClient, solanaConnection,
          exitCode, argv, details, completedWith>>

-----------------------------------------------------------------------------
(* Bounds *)

\* Number of generateSessionSecrets results (each one is a fresh value).
MaxSecrets == 2

-----------------------------------------------------------------------------
(* Values *)

\* JavaScript null for object-valued variables.
Null == [null |-> TRUE]

\* JavaScript undefined for string-valued fields and for unset locals.
Undefined == "undefined"

\* The empty string.
Empty == <<>>

Digits == {"0", "1", "2", "3", "4", "5", "6", "7", "8", "9"}

DigitVal(c) ==
    CASE c = "0" -> 0 [] c = "1" -> 1 [] c = "2" -> 2 [] c = "3" -> 3
      [] c = "4" -> 4 [] c = "5" -> 5 [] c = "6" -> 6 [] c = "7" -> 7
      [] c = "8" -> 8 [] c = "9" -> 9

IsSpace(c) == c = " "

RECURSIVE TrimLeft(_)
TrimLeft(s) ==
    IF s # <<>> /\ IsSpace(Head(s)) THEN TrimLeft(Tail(s)) ELSE s

RECURSIVE TrimRight(_)
TrimRight(s) ==
    IF s # <<>> /\ IsSpace(s[Len(s)])
    THEN TrimRight(SubSeq(s, 1, Len(s) - 1))
    ELSE s

\* String.prototype.trim
Trim(s) == TrimRight(TrimLeft(s))

\* s.startsWith(p)
StartsWith(s, p) == Len(s) >= Len(p) /\ SubSeq(s, 1, Len(p)) = p

\* String.prototype.includes: p occurs in s as a contiguous run.
Includes(s, p) ==
    \E i \in 1..(Len(s) + 1) :
        i + Len(p) - 1 <= Len(s) /\ SubSeq(s, i, i + Len(p) - 1) = p

-----------------------------------------------------------------------------
(* parseFloat and validateAmount (index.ts:72-92) *)

InfinityLit == <<"I", "n", "f", "i", "n", "i", "t", "y">>

\* The longest prefix of s made of decimal digits.
RECURSIVE DigitPrefix(_)
DigitPrefix(s) ==
    IF s # <<>> /\ Head(s) \in Digits
    THEN <<Head(s)>> \o DigitPrefix(Tail(s))
    ELSE <<>>

RECURSIVE DigitsToNat(_)
DigitsToNat(ds) ==
    IF ds = <<>> THEN 0
    ELSE 10 * DigitsToNat(SubSeq(ds, 1, Len(ds) - 1)) + DigitVal(ds[Len(ds)])

DigitVals(ds) == [i \in 1..Len(ds) |-> DigitVal(ds[i])]

NaN == [kind |-> "nan"]

\* JavaScript parseFloat on a string without an exponent part: leading white
\* space is skipped, then an optional sign, then either the literal Infinity
\* or the longest decimal literal; whatever follows is ignored; NaN when no
\* digit was read.  A finite result is kept as an exact decimal: sign,
\* integer part and the list of fraction digits.
parseFloat(s) ==
    LET t    == TrimLeft(s)
        sgn  == t # <<>> /\ Head(t) \in {"+", "-"}
        neg  == t # <<>> /\ Head(t) = "-"
        u    == IF sgn THEN Tail(t) ELSE t
        ipd  == DigitPrefix(u)
        r    == SubSeq(u, Len(ipd) + 1, Len(u))
        fdd  == IF r # <<>> /\ Head(r) = "." THEN DigitPrefix(Tail(r)) ELSE <<>>
    IN  IF StartsWith(u, InfinityLit)
        THEN [kind |-> "inf", neg |-> neg]
        ELSE IF ipd = <<>> /\ fdd = <<>>
        THEN NaN
        ELSE [kind |-> "num", neg |-> neg, ip |-> DigitsToNat(ipd),
              fd |-> DigitVals(fdd)]

isNaN(num) == num.kind = "nan"

IsZero(num) == num.ip = 0 /\ \A i \in 1..Len(num.fd) : num.fd[i] = 0

\* num <= 0
LeqZero(num) ==
    CASE num.kind = "nan" -> FALSE
      [] num.kind = "inf" -> num.neg
      [] num.kind = "num" -> num.neg \/ IsZero(num)

\* num >= k: the comparison with the bound itself counted as too large.
GreaterThan_orEqual(num, k) ==
    CASE num.kind = "nan" -> FALSE
      [] num.kind = "inf" -> ~num.neg
      [] num.kind = "num" -> ~num.neg /\ num.ip >= k

\* num > k, for an integer k >= 0
GreaterThan(num, k) ==
    CASE num.kind = "nan" -> FALSE
      [] num.kind = "inf" -> ~num.neg
      [] num.kind = "num" ->
            IF IsZero(num) THEN FALSE
            ELSE /\ ~num.neg
                 /\ \/ num.ip > k
                    \/ num.ip = k /\ \E i \in 1..Len(num.fd) : num.fd[i] # 0

UsdcMax == 1000000
SolMax == 10000

validateAmount(amt, tokenType) ==
    LET num == parseFloat(amt)
    IN  IF isNaN(num)
        THEN [valid |-> FALSE, error |-> "Please enter a valid number"]
        ELSE IF LeqZero(num)
        THEN [valid |-> FALSE, error |-> "Amount must be greater than 0"]
        ELSE IF tokenType = "USDC" /\ GreaterThan(num, UsdcMax)
        THEN [valid |-> FALSE, error |-> "USDC amount too large (max: 1,000,000)"]
        ELSE IF tokenType = "SOL" /\ GreaterThan(num, SolMax)
        THEN [valid |-> FALSE, error |-> "SOL amount too large (max: 10,000)"]
        ELSE [valid |-> TRUE, error |-> Undefined]

\* The validate callback of the amount prompt (index.ts:347-351, 475-479):
\* the message shown for a rejected input, or Undefined when it is accepted.
AmountPromptValidate(input, tokenType) ==
    IF Trim(input) = <<>> THEN "Please enter an amount"
    ELSE LET validation == validateAmount(Trim(input), tokenType)
         IN  IF validation.valid THEN Undefined ELSE validation.error

-----------------------------------------------------------------------------
(* Double-precision arithmetic of the conversions to base units             *)
(* (index.ts:356, 511)                                                      *)

\* A natural number of any size: its base-10000 limbs, least significant
\* first, without leading zero limbs; <<>> is 0.
RECURSIVE BigFromNat(_)
BigFromNat(n) ==
    IF n = 0 THEN <<>> ELSE <<n % 10000>> \o BigFromNat(n \div 10000)

\* x * c + carry, for 1 <= c <= 10000 and 0 <= carry < 10000
RECURSIVE BigMulAdd(_, _, _)
BigMulAdd(x, c, carry) ==
    IF x = <<>> THEN BigFromNat(carry)
    ELSE LET t == Head(x) * c + carry
         IN  <<t % 10000>> \o BigMulAdd(Tail(x), c, t \div 10000)

RECURSIVE BigStrip(_)
BigStrip(x) ==
    IF x # <<>> /\ x[Len(x)] = 0 THEN BigStrip(SubSeq(x, 1, Len(x) - 1)) ELSE x

\* Quotient and remainder of x by c, for 1 <= c <= 10000; the quotient may
\* carry leading zero limbs.
RECURSIVE BigDivModRaw(_, _)
BigDivModRaw(x, c) ==
    IF x = <<>> THEN [q |-> <<>>, r |-> 0]
    ELSE LET hi == BigDivModRaw(Tail(x), c)
             t  == hi.r * 10000 + Head(x)
         IN  [q |-> <<t \div c>> \o hi.q, r |-> t % c]

BigDivMod(x, c) ==
    LET d == BigDivModRaw(x, c) IN [q |-> BigStrip(d.q), r |-> d.r]

\* x >= y
RECURSIVE BigGeq(_, _)
BigGeq(x, y) ==
    IF Len(x) # Len(y) THEN Len(x) > Len(y)
    ELSE IF x = <<>> THEN TRUE
    ELSE IF x[Len(x)] # y[Len(y)] THEN x[Len(x)] > y[Len(y)]
    ELSE BigGeq(SubSeq(x, 1, Len(x) - 1), SubSeq(y, 1, Len(y) - 1))

\* Powers of two are taken thirteen at a time: 2^13 fits in a limb.
TwoTo13 == 8192

\* x * c^n
RECURSIVE BigTimesPower(_, _, _)
BigTimesPower(x, c, n) ==
    IF n = 0 \/ x = <<>> THEN x
    ELSE IF c = 2 /\ n >= 13
    THEN BigTimesPower(BigMulAdd(x, TwoTo13, 0), c, n - 13)
    ELSE BigTimesPower(BigMulAdd(x, c, 0), c, n - 1)

\* floor(x / c^n), and whether anything was cut off
RECURSIVE BigOverPower(_, _, _, _)
BigOverPower(x, c, n, sticky) ==
    IF n = 0 \/ x = <<>> THEN [q |-> x, sticky |-> sticky]
    ELSE LET wide == c = 2 /\ n >= 13
             d    == BigDivMod(x, IF wide THEN TwoTo13 ELSE c)
             left == IF wide THEN n - 13 ELSE n - 1
         IN  IF sticky \/ d.r # 0
             THEN BigOverPower(d.q, c, left, TRUE)
             ELSE BigOverPower(d.q, c, left, FALSE)

\* Bits of the significand of a double.
SignificandBits == 53

\* 2^53 and 2^54
TwoTo53 == BigTimesPower(<<1>>, 2, SignificandBits)
TwoTo54 == BigTimesPower(<<1>>, 2, SignificandBits + 1)
TwoTo67 == BigTimesPower(<<1>>, 2, SignificandBits + 14)

\* A positive double is [m, e] and stands for m * 2^e with
\* 2^52 <= m < 2^53; zero is [m |-> <<>>, e |-> 0].
\*
\* Round to nearest, ties to even: the double nearest to (x + f) * 2^e,
\* where x >= 2^53 and 0 <= f < 1, f # 0 exactly when sticky.
\* Thirteen bits are dropped at a time while more than thirteen are in
\* excess; the test on e keeps the exponent evaluated at every level.
RECURSIVE RoundToDouble(_, _, _)
RoundToDouble(x, sticky, e) ==
    IF e * 0 = 0 /\ BigGeq(x, TwoTo67)
    THEN LET d == BigDivMod(x, TwoTo13)
         IN  IF sticky \/ d.r # 0
             THEN RoundToDouble(d.q, TRUE, e + 13)
             ELSE RoundToDouble(d.q, FALSE, e + 13)
    ELSE IF BigGeq(x, TwoTo54)
    THEN LET d == BigDivMod(x, 2)
         IN  IF sticky \/ d.r # 0
             THEN RoundToDouble(d.q, TRUE, e + 1)
             ELSE RoundToDouble(d.q, FALSE, e + 1)
    ELSE LET d    == BigDivMod(x, 2)
             odd  == d.q[1] % 2 = 1
             up   == d.r = 1 /\ (sticky \/ odd)
             m    == IF up THEN BigMulAdd(d.q, 1, 1) ELSE d.q
         IN  IF m = TwoTo53
             THEN [m |-> BigDivMod(m, 2).q, e |-> e + 2]
             ELSE [m |-> m, e |-> e + 1]

\* The least t with n * 2^t >= bound, and n * 2^t
\* (thirteen doublings at a time while they stay below the bound).
RECURSIVE ScaleUp(_, _, _)
ScaleUp(n, bound, t) ==
    IF t >= 0 /\ BigGeq(n, bound) THEN [x |-> n, t |-> t]
    ELSE IF ~BigGeq(BigMulAdd(n, TwoTo13, 0), bound)
    THEN ScaleUp(BigMulAdd(n, TwoTo13, 0), bound, t + 13)
    ELSE ScaleUp(BigMulAdd(n, 2, 0), bound, t + 1)

RECURSIVE BigAppendDigits(_, _)
BigAppendDigits(x, ds) ==
    IF ds = <<>> THEN x
    ELSE BigAppendDigits(BigMulAdd(x, 10, Head(ds)), Tail(ds))

\* The double a non-negative decimal literal denotes (the result of
\* parseFloat as the engine holds it): the double nearest to n / 10^k,
\* where n is the literal's digits and k the number of fraction digits.
DecimalToDouble(num) ==
    LET n == BigAppendDigits(BigFromNat(num.ip), num.fd)
        k == Len(num.fd)
    IN  IF n = <<>> THEN [m |-> <<>>, e |-> 0]
        ELSE LET s == ScaleUp(n, BigTimesPower(TwoTo54, 10, k), 0)
                 d == BigOverPower(s.x, 10, k, FALSE)
             IN  RoundToDouble(d.q, d.sticky, 0 - s.t)

\* d * 10^p in double arithmetic, for a power of ten that is itself a
\* double (p <= 22): the exact product, rounded once.
DoubleTimesPowerOfTen(dbl, p) ==
    IF dbl.m = <<>> THEN dbl
    ELSE RoundToDouble(BigTimesPower(dbl.m, 10, p), FALSE, dbl.e)

\* Math.floor of a non-negative double, as a natural number
MathFloor(dbl) ==
    IF dbl.e >= 0 THEN BigTimesPower(dbl.m, 2, dbl.e)
    ELSE BigOverPower(dbl.m, 2, 0 - dbl.e, FALSE).q

NatDigits(n) ==
    <<n \div 1000, (n \div 100) % 10, (n \div 10) % 10, n % 10>>

RECURSIVE StripZeros(_)
StripZeros(ds) ==
    IF Len(ds) > 1 /\ Head(ds) = 0 THEN StripZeros(Tail(ds)) ELSE ds

RECURSIVE BigDigits(_)
BigDigits(x) ==
    IF x = <<>> THEN <<>> ELSE BigDigits(Tail(x)) \o NatDigits(Head(x))

DigitChar(d) ==
    CASE d = 0 -> "0" [] d = 1 -> "1" [] d = 2 -> "2" [] d = 3 -> "3"
      [] d = 4 -> "4" [] d = 5 -> "5" [] d = 6 -> "6" [] d = 7 -> "7"
      [] d = 8 -> "8" [] d = 9 -> "9"

\* Number.prototype.toString of a natural number: its decimal digits.
NumberToString(x) ==
    LET ds == IF x = <<>> THEN <<0>> ELSE StripZeros(BigDigits(x))
    IN  [i \in 1..Len(ds) |-> DigitChar(ds[i])]

\* 1_000_000 = 10^6 (index.ts:356) and LAMPORTS_PER_SOL = 10^9 (index.ts:511)
UsdcDecimals == 6
LamportsDecimals == 9

\* Math.floor(parseFloat(amount) * 1_000_000) (index.ts:356)
amountInBaseUnits(amt) ==
    MathFloor(DoubleTimesPowerOfTen(DecimalToDouble(parseFloat(amt)),
                                    UsdcDecimals))

\* Math.floor(parseFloat(amount) * LAMPORTS_PER_SOL) (index.ts:511)
lamports(amt) ==
    MathFloor(DoubleTimesPowerOfTen(DecimalToDouble(parseFloat(amt)),
                                    LamportsDecimals))

-----------------------------------------------------------------------------
(* Addresses (index.ts:63-70) *)

\* An address string is a sequence of tokens: " " is a blank, any other
\* token stands for a run of non-blank characters.  The tokens below stand
\* for base58 strings that decode to 32 bytes; new PublicKey accepts a
\* string exactly when it is one such token and nothing else.
PubkeyTokens == {"ADDR1", "ADDR2"}

PublicKeyOk(address) == Len(address) = 1 /\ address[1] \in PubkeyTokens

validateSolanaAddress(address) == PublicKeyOk(address)

\* The validate callback of the recipient prompt (index.ts:337-341, 465-469).
RecipientPromptValidate(input) ==
    IF Trim(input) = <<>> THEN "Please enter a recipient address"
    ELSE IF ~validateSolanaAddress(Trim(input))
    THEN "Please enter a valid Solana address"
    ELSE Undefined

-----------------------------------------------------------------------------
(* The environment: what the user types and what the collaborators answer *)

Emails == {"a@example.com", "b@example.com"}

OtpCodes == {"123456"}

\* Error messages, as sequences of words.
MsgUserNotFound  == <<"User", "not", "found">>
MsgEmailNotFound == <<"Email", "address", "not", "found">>
MsgNotFoundCaps  == <<"404", "Not", "Found">>
MsgAlreadyExists == <<"Account", "already", "exists">>
MsgNotAuthorized == <<"User", "not", "authorized">>
MsgNetwork       == <<"Network", "error">>
MsgNone          == <<>>

ErrorMessages ==
    {MsgUserNotFound, MsgEmailNotFound, MsgNotFoundCaps, MsgAlreadyExists,
     MsgNotAuthorized, MsgNetwork, MsgNone}

\* An SDK call either returns a response carrying data, returns one without
\* data, or throws an error with a message.
Returned(d) == [kind |-> "returned", data |-> d]
Threw(m)    == [kind |-> "threw", message |-> m]

InitAuthOutcomes ==
    {Returned(TRUE), Returned(FALSE)} \cup {Threw(m) : m \in ErrorMessages}

CreateAccountOutcomes ==
    {Returned(TRUE)} \cup {Threw(m) : m \in ErrorMessages}

\* The responses completeAuth / completeAuthAndCreateAccount may resolve to.
SessionResponses ==
    { [smart_account_address |-> "ADDR1", address |-> "ADDR2",
       session |-> "SESSION", authentication |-> "AUTH", grid_user_id |-> "UID"],
      [smart_account_address |-> Undefined, address |-> "ADDR1",
       session |-> Undefined, authentication |-> "AUTH", grid_user_id |-> "UID"],
      [smart_account_address |-> Undefined, address |-> Undefined,
       session |-> Undefined, authentication |-> "AUTH", grid_user_id |-> "UID"] }

\* generateSessionSecrets resolves with nothing.
Secrets_none(n) == Null

\* A generateSessionSecrets result: the n-th one generated in this process.
Secrets(n) == [secret |-> n]

-----------------------------------------------------------------------------
(* Configuration read at module load (index.ts:15-36) *)

\* What the environment variables may hold when the process starts.
EnvironmentValues == {Undefined, "sandbox", "production", "staging"}

SandboxKeyValues == {Undefined, "", "KEY_S"}

ProductionKeyValues == {Undefined, "", "KEY_P"}

\* !v for a string-valued v: undefined and the empty string are falsy.
Falsy(v) == v = Undefined \/ v = ""

\* process.env.GRID_ENVIRONMENT || 'sandbox' (index.ts:19)
GRID_ENVIRONMENT ==
    IF Falsy(processEnv.GRID_ENVIRONMENT) THEN "sandbox"
    ELSE processEnv.GRID_ENVIRONMENT

SANDBOX_API_KEY == processEnv.GRID_SANDBOX_API_KEY

PRODUCTION_API_KEY == processEnv.GRID_PRODUCTION_API_KEY

\* A key is taken when either variable holds one.
GRID_API_KEY_either ==
    IF Falsy(PRODUCTION_API_KEY) THEN SANDBOX_API_KEY ELSE PRODUCTION_API_KEY

\* The key of the selected environment (index.ts:26)
GRID_API_KEY ==
    IF GRID_ENVIRONMENT = "production" THEN PRODUCTION_API_KEY ELSE SANDBOX_API_KEY

\* What DEBUG and the command line may hold when the process starts.
DebugValues == {Undefined, "true", "1"}

ArgvValues == {<<>>, <<"--debug">>, <<"-d">>, <<"--verbose">>}

\* The configuration under which every debug setting is explored; under the
\* other configurations the process starts without any debug setting.
DebugSettingsVaryFor(env) ==
    /\ env.GRID_ENVIRONMENT = "sandbox"
    /\ env.GRID_SANDBOX_API_KEY = "KEY_S"
    /\ env.GRID_PRODUCTION_API_KEY = "KEY_P"

\* process.argv.includes(flag)
ArgvIncludes(flag) == \E i \in 1..Len(argv) : argv[i] = flag

\* index.ts:24
DEBUG_MODE ==
    processEnv.DEBUG = "true" \/ ArgvIncludes("--debug") \/ ArgvIncludes("-d")

\* What debugLog adds to the console (index.ts:45-49)
debugLog(line) == IF DEBUG_MODE THEN <<line>> ELSE <<>>

\* Variant of simpleLog that prints in either mode.
simpleLog_always(line) == <<line>>

\* What simpleLog adds to the console (index.ts:51-55)
simpleLog(line) == IF DEBUG_MODE THEN <<>> ELSE <<line>>

\* A step reported by a simpleLog call followed by a debugLog call (e.g.
\* index.ts:396-397).  The two messages name the same step; `out' keeps the
\* step.
Paired(line) == simpleLog(line) \o debugLog(line)

\* The first lines of initializeGridClient (index.ts:96-106)
ConfigurationBanner ==
    IF DEBUG_MODE THEN <<"Grid SDK Configuration">> ELSE <<"Grid CLI Environment">>

\* Variant of getExplorerUrl whose links always name devnet.
getExplorerUrl_devnet(signature) == [signature |-> signature, cluster |-> "devnet"]

\* getExplorerUrl (index.ts:58-61): the link as its two variable parts.
getExplorerUrl(signature) ==
    [signature |-> signature,
     cluster |-> IF GRID_ENVIRONMENT = "sandbox" THEN "devnet" ELSE "mainnet-beta"]

\* The cluster of the RPC connection (index.ts:114)
SolanaNetwork ==
    IF GRID_ENVIRONMENT = "sandbox" THEN "devnet" ELSE "mainnet-beta"

-----------------------------------------------------------------------------
(* Initial state (index.ts:15-43) *)

Init ==
    /\ pc = "start"
    /\ processEnv \in [GRID_ENVIRONMENT : EnvironmentValues,
                       GRID_SANDBOX_API_KEY : SandboxKeyValues,
                       GRID_PRODUCTION_API_KEY : ProductionKeyValues,
                       DEBUG : DebugValues]
    /\ argv \in ArgvValues
    /\ DebugSettingsVaryFor(processEnv) \/ (processEnv.DEBUG = Undefined /\ argv = <<>>)
    /\ details = <<>>
    /\ completedWith = Null
    /\ gridClient = Null
    /\ solanaConnection = Null
    /\ exitCode = Undefined
    /\ lastAnswer = Undefined
    /\ flow = "none"
    /\ entry = [userSession |-> Null, sessionSecrets |-> Null]
    /\ userSession = Null
    /\ sessionSecrets = Null
    /\ secretsGenerated = 0
    /\ email = Undefined
    /\ isNewUser = FALSE
    /\ otp = Undefined
    /\ recipientAddress = Empty
    /\ amount = Empty
    /\ calls = <<>>
    /\ prompts = <<>>
    /\ out = <<>>
    /\ lastValidation = Undefined

\* mainMenu returns after the flow instead of calling itself again.
BackToMenu_exit == pc' = "exited"

\* Control returns to mainMenu, which shows the menu again (index.ts:720).
BackToMenu == pc' = "menu"

-----------------------------------------------------------------------------
(* Start of the process (index.ts:26-36, 95-122, 725-731) *)

\* The module's top-level code: without a key for the selected environment
\* the process ends with status 1 (index.ts:26-36).
LoadConfiguration ==
    /\ pc = "start"
    /\ IF Falsy(GRID_API_KEY)
       THEN /\ out' = <<"ERROR: Missing API key for environment">>
            /\ exitCode' = 1
            /\ pc' = "exited"
       ELSE /\ pc' = "main"
            /\ UNCHANGED <<out, exitCode>>
    /\ UNCHANGED <<processEnv, argv, details, completedWith, gridClient,
                   solanaConnection, flow, entry, userSession, sessionSecrets, secretsGenerated, email,
                   isNewUser, otp, recipientAddress, amount, lastValidation,
                   lastAnswer, calls, prompts>>

\* main() up to the first menu prompt: initializeGridClient builds the API
\* client and the RPC connection (index.ts:95-122, 725-729).
InitializeGridClient ==
    /\ pc = "main"
    /\ gridClient' = [apiKey |-> GRID_API_KEY, environment |-> GRID_ENVIRONMENT]
    /\ solanaConnection' = [cluster |-> SolanaNetwork, commitment |-> "confirmed"]
    /\ out' = ConfigurationBanner \o debugLog("Connecting to Solana network")
                \o <<"Welcome to the Grid SDK CLI Tool!">>
    /\ pc' = "menu"
    /\ UNCHANGED <<processEnv, argv, details, completedWith, exitCode, flow,
                   entry, userSession,
                   sessionSecrets, secretsGenerated, email, isNewUser, otp,
                   recipientAddress, amount, lastValidation, lastAnswer, calls,
                   prompts>>

\* A menu choice starts flow f: the locals and records of the previous
\* invocation are gone (index.ts:702-714).
ResetInvocation(f) ==
    /\ flow' = f
    /\ entry' = [userSession |-> userSession, sessionSecrets |-> sessionSecrets]
    /\ calls' = <<>>
    /\ email' = Undefined
    /\ isNewUser' = FALSE
    /\ otp' = Undefined
    /\ recipientAddress' = Empty
    /\ amount' = Empty
    /\ lastValidation' = Undefined
    /\ lastAnswer' = Undefined
    /\ details' = <<>>

transferLocals == <<recipientAddress, amount, lastValidation, lastAnswer>>
startupState == <<processEnv, argv, gridClient, solanaConnection, exitCode>>
loginLocals == <<email, isNewUser, otp>>
sessionState == <<userSession, sessionSecrets, secretsGenerated, completedWith>>

-----------------------------------------------------------------------------
(* loginOrRegister (index.ts:128-205) *)

\* Variant of IsNotFound: the test looks for 'not' alone.
IsNotFound_loose(message) ==
    /\ message # MsgNone
    /\ Includes(message, <<"not">>)

\* index.ts:160
IsNotFound(message) ==
    /\ message # MsgNone
    /\ \/ Includes(message, <<"User", "not", "found">>)
       \/ Includes(message, <<"not", "found">>)

\* Variant of IsAlreadyExists: any registration error with a message counts.
IsAlreadyExists_any(message) == message # MsgNone

\* index.ts:177
IsAlreadyExists(message) ==
    /\ message # MsgNone
    /\ Includes(message, <<"already", "exists">>)

\* Menu choice 'login': loginOrRegister starts and prompts for the email.
ChooseLogin ==
    /\ pc = "menu"
    /\ secretsGenerated < MaxSecrets
    /\ ResetInvocation("login")
    /\ pc' = "login_email"
    /\ prompts' = <<"email">>
    /\ out' = <<>>
    /\ UNCHANGED <<startupState, sessionState>>

\* The email is entered (index.ts:129-135).
EnterEmail ==
    /\ pc = "login_email"
    /\ \E e \in Emails : email' = e
    /\ pc' = "login_initAuth"
    /\ UNCHANGED <<startupState, details, flow, entry, sessionState, isNewUser, otp,
                   transferLocals, calls, prompts, out>>

\* verifyOtp(email, newUser) is entered: it prompts for the OTP (207-214).
StartVerifyOtp(newUser) ==
    /\ isNewUser' = newUser
    /\ prompts' = Append(prompts, "otp")
    /\ pc' = "otp_prompt"

\* gridClient.initAuth resolves or rejects (index.ts:140-161, 195-203).
\* A response without data is turned into a thrown Error (index.ts:147).
InitAuth ==
    /\ pc = "login_initAuth"
    /\ \E r \in InitAuthOutcomes :
        LET message == IF r.kind = "threw" THEN r.message
                       ELSE <<"Failed", "to", "initialize", "authentication">>
        IN  /\ calls' = Append(calls, [op |-> "initAuth", email |-> email,
                                       result |-> r])
            /\ IF r.kind = "returned" /\ r.data
               THEN /\ out' = out \o Paired("OTP sent")
                    /\ StartVerifyOtp(FALSE)
               ELSE IF IsNotFound(message)
               THEN /\ out' = out \o <<"Authentication failed",
                                       "User not found. Attempting to register">>
                    /\ pc' = "login_createAccount"
                    /\ UNCHANGED <<isNewUser, prompts>>
               ELSE /\ out' = out \o <<"Authentication failed",
                                       "This might be an existing account">>
                    /\ StartVerifyOtp(FALSE)
    /\ UNCHANGED <<startupState, details, flow, entry, sessionState, email, otp,
                   transferLocals>>

\* gridClient.createAccount resolves or rejects (index.ts:163-194).  The
\* response itself is not inspected: any resolved call counts as success.
CreateAccount ==
    /\ pc = "login_createAccount"
    /\ \E r \in CreateAccountOutcomes :
        /\ calls' = Append(calls, [op |-> "createAccount", email |-> email,
                                   result |-> r])
        /\ IF r.kind = "returned"
           THEN /\ out' = out \o Paired("Account creation initiated")
                /\ StartVerifyOtp(TRUE)
           ELSE IF IsAlreadyExists(r.message)
           THEN /\ out' = out \o <<"Registration error",
                                   "Account already exists. Retrying login">>
                /\ pc' = "login_retryInitAuth"
                /\ UNCHANGED <<isNewUser, prompts>>
           ELSE /\ out' = out \o <<"Registration error", "Registration failed">>
                /\ BackToMenu
                /\ UNCHANGED <<isNewUser, prompts>>
    /\ UNCHANGED <<startupState, details, flow, entry, sessionState, email, otp,
                   transferLocals>>

\* The retried gridClient.initAuth resolves or rejects (index.ts:181-190).
RetryInitAuth ==
    /\ pc = "login_retryInitAuth"
    /\ \E r \in InitAuthOutcomes :
        /\ calls' = Append(calls, [op |-> "initAuth", email |-> email,
                                   result |-> r])
        /\ IF r.kind = "returned" /\ r.data
           THEN /\ out' = out \o Paired("OTP sent")
                /\ StartVerifyOtp(FALSE)
           ELSE IF r.kind = "returned"
           THEN /\ BackToMenu
                /\ UNCHANGED <<out, isNewUser, prompts>>
           ELSE /\ out' = Append(out, "Login retry failed")
                /\ BackToMenu
                /\ UNCHANGED <<isNewUser, prompts>>
    /\ UNCHANGED <<startupState, details, flow, entry, sessionState, email, otp,
                   transferLocals>>

-----------------------------------------------------------------------------
(* verifyOtp (index.ts:207-269) *)

GenerateSecretsOutcomes == {"returned", "threw"}

\* A completion call resolves to a response, resolves to nothing, or rejects.
CompletionOutcomes ==
    {[kind |-> "response", response |-> r] : r \in SessionResponses}
        \cup {[kind |-> "none"], [kind |-> "threw"]}

\* The minimal user object (index.ts:223-226, 236-239).
MinimalUserContext(e) == [email |-> e, signers |-> <<>>]

\* Variant of UserContext: the stored session is preferred on both paths.
UserContext_stored(newUser, session, e) ==
    IF session # Null THEN session ELSE MinimalUserContext(e)

\* The user passed to the completion call (index.ts:221-239).
UserContext(newUser, session, e) ==
    IF newUser THEN MinimalUserContext(e)
    ELSE IF session # Null THEN session
    ELSE MinimalUserContext(e)

\* Variant of CompletionOp: isNewUser is ignored.
CompletionOp_existing(newUser) == "completeAuth"

\* The completion method verifyOtp calls (index.ts:221, 228, 241).
CompletionOp(newUser) ==
    IF newUser THEN "completeAuthAndCreateAccount" ELSE "completeAuth"

\* The line printed right after the completion call resolved (233, 246).
CompletionLine(newUser) ==
    IF newUser THEN "Registration successful!" ELSE "Login successful!"

\* !userSession (index.ts:272)
NoSession(session) == session = Null

\* Variant of NoSessionOrSecrets: only the secrets are tested.
NoSessionOrSecrets_secretsOnly(session, secrets) == secrets = Null

\* Variant of NoSessionOrSecrets: && in place of ||.
NoSessionOrSecrets_and(session, secrets) == session = Null /\ secrets = Null

\* !userSession || !sessionSecrets (index.ts:323, 446)
NoSessionOrSecrets(session, secrets) == session = Null \/ secrets = Null

\* Variant of StoredSession: a completion call that fails clears the session.
StoredSession_cleared(current, r) ==
    IF r.kind = "response" THEN r.response ELSE Null

\* Variant of StoredSession: the result of a resolved call is stored without
\* testing that there is one.
StoredSession_unchecked(current, r) ==
    IF r.kind = "threw" THEN current
    ELSE IF r.kind = "response" THEN r.response
    ELSE Null

\* The session held after the completion call (index.ts:249-263): the full
\* response when there is one, otherwise what was held before.
StoredSession(current, r) ==
    IF r.kind = "response" THEN r.response ELSE current

\* Variant of VerifyOtpCaught: the OTP is asked for again.
VerifyOtpCaught_retry ==
    /\ pc' = "otp_prompt"
    /\ prompts' = Append(prompts, "otp")

\* The catch block of verifyOtp (index.ts:265-268): the error is printed and
\* verifyOtp returns; nothing follows it in loginOrRegister.
VerifyOtpCaught ==
    /\ BackToMenu
    /\ UNCHANGED prompts

\* The OTP is entered (index.ts:208-214).
EnterOtp ==
    /\ pc = "otp_prompt"
    /\ \E o \in OtpCodes : otp' = o
    /\ pc' = "otp_generateSecrets"
    /\ UNCHANGED <<startupState, details, flow, entry, sessionState, email, isNewUser,
                   transferLocals, calls, prompts, out>>

\* gridClient.generateSessionSecrets resolves or rejects (index.ts:216-218,
\* 265-268); its result is assigned to sessionSecrets at once.
GenerateSessionSecrets ==
    /\ pc = "otp_generateSecrets"
    /\ \E r \in GenerateSecretsOutcomes :
        IF r = "returned"
        THEN /\ calls' = Append(calls, [op |-> "generateSessionSecrets",
                                        result |-> Secrets(secretsGenerated + 1)])
             /\ secretsGenerated' = secretsGenerated + 1
             /\ sessionSecrets' = Secrets(secretsGenerated + 1)
             /\ pc' = "otp_complete"
             /\ UNCHANGED <<out, prompts>>
        ELSE /\ calls' = Append(calls, [op |-> "generateSessionSecrets",
                                        result |-> Null])
             /\ out' = Append(out, "OTP verification failed")
             /\ VerifyOtpCaught
             /\ UNCHANGED <<sessionSecrets, secretsGenerated>>
    /\ UNCHANGED <<startupState, details, flow, entry, userSession,
                   completedWith, loginLocals, transferLocals>>

\* completeAuth / completeAuthAndCreateAccount resolves or rejects
\* (index.ts:220-268).
CompleteAuth ==
    /\ pc = "otp_complete"
    /\ \E r \in CompletionOutcomes :
        /\ calls' = Append(calls,
                       [op |-> CompletionOp(isNewUser),
                        otpCode |-> otp,
                        sessionSecrets |-> sessionSecrets,
                        user |-> UserContext(isNewUser, userSession, email),
                        result |-> r])
        /\ userSession' = StoredSession(userSession, r)
        /\ completedWith' = IF r.kind = "response" THEN sessionSecrets
                            ELSE completedWith
        /\ CASE r.kind = "response" ->
                    /\ out' = out \o <<CompletionLine(isNewUser), "Session stored">>
                    /\ BackToMenu
                    /\ UNCHANGED prompts
             [] r.kind = "none" ->
                    /\ out' = out \o <<CompletionLine(isNewUser),
                                       "OTP verification failed">>
                    /\ VerifyOtpCaught
             [] r.kind = "threw" ->
                    /\ out' = Append(out, "OTP verification failed")
                    /\ VerifyOtpCaught
    /\ UNCHANGED <<startupState, details, flow, entry, sessionSecrets,
                   secretsGenerated, loginLocals, transferLocals>>

-----------------------------------------------------------------------------
(* checkBalance (index.ts:271-320) *)

\* a || b on string-valued fields
OrElse(a, b) == IF a # Undefined THEN a ELSE b

\* The plain address is preferred to the smart-account address.
AccountAddress_plainFirst(session) == OrElse(session.address, session.smart_account_address)

\* userSession.smart_account_address || userSession.address (278, 358, 483)
AccountAddress(session) == OrElse(session.smart_account_address, session.address)

\* Tokens of a balances response.  A field the response leaves out is left
\* out of the record; amount is the raw amount in the token's smallest unit.
Tokens ==
    { [symbol |-> "USDC", amount |-> 1500000, decimals |-> 6, amount_decimal |-> "1.5"],
      [symbol |-> "USDC", amount |-> 1500000, decimals |-> 6],
      [symbol |-> "USDC", amount |-> 1500000],
      [symbol |-> "BONK", amount |-> 1500000, decimals |-> 5],
      [symbol |-> "TICKET", amount |-> 3, decimals |-> 0] }

\* The token lists of a balances response.
TokenLists ==
    {<<>>} \cup {<<t>> : t \in Tokens}
        \cup {<<[symbol |-> "BONK", amount |-> 1500000, decimals |-> 5],
                [symbol |-> "USDC", amount |-> 1500000, decimals |-> 6]>>}

BalancesOutcomes ==
    {[kind |-> "threw"], [kind |-> "failure"]}
        \cup {[kind |-> "success", hasTokens |-> FALSE, tokens |-> <<>>, sol |-> sol] :
                sol \in BOOLEAN}
        \cup {[kind |-> "success", hasTokens |-> TRUE, tokens |-> t, sol |-> sol] :
                t \in TokenLists, sol \in BOOLEAN}

\* token.decimals || 6 (index.ts:297, 303): a missing field and the number
\* 0 are both falsy.
DecimalsOrSix(token) ==
    IF "decimals" \in DOMAIN token /\ token.decimals # 0
    THEN token.decimals
    ELSE 6

\* token.amount_decimal || (Number(token.amount) / Math.pow(10, ...))
\* (index.ts:297, 303).  The quotient is kept as its two operands.
TokenBalance(token) ==
    IF "amount_decimal" \in DOMAIN token /\ token.amount_decimal # ""
    THEN [amount_decimal |-> token.amount_decimal]
    ELSE [amount |-> token.amount, dividedByTenTo |-> DecimalsOrSix(token)]

\* tokens.find(b => b.symbol === 'USDC') (index.ts:301), as a list of at
\* most one token.
FindUsdc(tokens) ==
    LET found == {i \in 1..Len(tokens) : tokens[i].symbol = "USDC"}
    IN  IF found = {} THEN <<>>
        ELSE <<tokens[CHOOSE i \in found : \A j \in found : i <= j]>>

\* The balances printed for a token list: one per token (index.ts:296-299),
\* then the USDC one again (index.ts:302-304).
PrintedBalances(tokens) ==
    [i \in 1..Len(tokens) |->
        [line |-> "token", symbol |-> tokens[i].symbol,
         balance |-> TokenBalance(tokens[i])]]
    \o [i \in 1..Len(FindUsdc(tokens)) |->
        [line |-> "usdc", symbol |-> "USDC",
         balance |-> TokenBalance(FindUsdc(tokens)[i])]]

\* A successful response without a token list is reported as a failure.
BalanceLines_strict(r) ==
    CASE r.kind \in {"threw", "failure"} -> <<"Failed to fetch balance">>
      [] r.kind = "success" ->
            IF r.hasTokens
            THEN <<"Found tokens">>
                 \o (IF FindUsdc(r.tokens) # <<>>
                     THEN <<"Your USDC balance">>
                     ELSE <<"No USDC balance found">>)
                 \o (IF r.sol THEN <<"SOL balance">> ELSE <<>>)
            ELSE <<"Failed to fetch balance">>

\* The lines printed for the outcome r of getAccountBalances
\* (index.ts:287-319).
BalanceLines(r) ==
    CASE r.kind \in {"threw", "failure"} -> <<"Failed to fetch balance">>
      [] r.kind = "success" ->
            (IF r.hasTokens
             THEN <<"Found tokens">>
                  \o (IF FindUsdc(r.tokens) # <<>>
                      THEN <<"Your USDC balance">>
                      ELSE <<"No USDC balance found">>)
             ELSE <<"No token balances found">>)
            \o (IF r.sol THEN <<"SOL balance">> ELSE <<>>)

\* Menu choice 'balance': checkBalance runs up to its first await.
ChooseBalance ==
    /\ pc = "menu"
    /\ ResetInvocation("balance")
    /\ prompts' = <<>>
    /\ IF NoSession(userSession)
       THEN /\ out' = <<"Please log in first.">>
            /\ BackToMenu
       ELSE IF AccountAddress(userSession) = Undefined
       THEN /\ out' = <<"No account address found in session">>
            /\ BackToMenu
       ELSE /\ out' = <<"Fetching balance">>
            /\ pc' = "balance_getAccountBalances"
    /\ UNCHANGED <<startupState, sessionState>>

\* gridClient.getAccountBalances resolves or rejects (index.ts:285-319).
GetAccountBalances ==
    /\ pc = "balance_getAccountBalances"
    /\ \E r \in BalancesOutcomes :
        /\ calls' = Append(calls, [op |-> "getAccountBalances",
                                   address |-> AccountAddress(userSession),
                                   result |-> r])
        /\ out' = out \o BalanceLines(r)
        /\ details' = IF r.kind = "success" /\ r.hasTokens
                      THEN details \o PrintedBalances(r.tokens)
                      ELSE details
    /\ BackToMenu
    /\ UNCHANGED <<startupState, flow, entry, sessionState, loginLocals,
                   transferLocals, prompts>>

-----------------------------------------------------------------------------
(* What the user types at the transfer prompts *)

RecipientInputs ==
    {<<>>, <<" ">>, <<"bad">>, <<"ADDR2">>, <<" ", "ADDR2">>}

AmountInputs ==
    { <<>>,
      <<" ">>,
      <<"a", "b", "c">>,
      <<"0">>,
      <<"-", "5">>,
      <<"-", "0", ".", "5">>,
      <<"I", "n", "f", "i", "n", "i", "t", "y">>,
      <<"1", "0", "0", "0", "0", "0", "1">>,
      <<"1", "2", ".", "5">>,
      <<"0", ".", "0", "0", "1">>,
      <<" ", "7">>,
      <<"5", "a", "b", "c">>,
      <<"1", "0", "0", "0", "0", "0", "0">>,
      <<"1", "0", "0", "0", "0">>,
      <<"1", "0", "0", "0", "1">>,
      <<"1", "0", "0", "0", "0", ".", "5">>,
      <<"8", ".", "2">>,
      <<"0", ".", "0", "0", "0", "0", "0", "0", "1">> }

\* The submission responses of send / signAndSend: each of the three
\* signature fields is present or not; the call may also resolve to nothing.
SubmissionResponses ==
    {[transaction_signature |-> a, signature |-> b, data_signature |-> c] :
        a \in {Undefined, "SIG_A"}, b \in {Undefined, "SIG_B"},
        c \in {Undefined, "SIG_C"}}

SubmissionOutcomes ==
    {[kind |-> "response", response |-> r] : r \in SubmissionResponses}
        \cup {[kind |-> "none"], [kind |-> "threw"]}

PayloadOutcomes == {"payload", "nopayload", "threw"}

CallOutcomes == {"returned", "threw"}

\* The response is taken to carry a payload whenever the call resolved.
HasPayload_unchecked(r) == r # "threw"

\* The call resolved and its response carries the payload the flow needs:
\* paymentIntent.data?.transactionPayload, preparedTx.data
\* (index.ts:390, 616).
HasPayload(r) == r = "payload"

-----------------------------------------------------------------------------
(* transferTokens (index.ts:322-443) *)

\* The signature field is looked at before transaction_signature.
UsdcSignature_signatureFirst(resp) ==
    IF resp.signature # Undefined
    THEN resp.signature
    ELSE OrElse(resp.transaction_signature, resp.data_signature)

\* txSignature of the USDC flow (index.ts:411-418)
UsdcSignature(resp) ==
    IF resp.transaction_signature # Undefined
    THEN resp.transaction_signature
    ELSE OrElse(resp.signature, resp.data_signature)

\* The explorer link printed for a submission result: simpleLog prints it,
\* no debugLog does (index.ts:423, 664).
ExplorerLinks(sig) ==
    IF sig # Undefined THEN simpleLog(getExplorerUrl(sig)) ELSE <<>>

\* The lines printed for a submission result (index.ts:420-435, 661-673):
\* the success line and a line carrying the signature, each by one call of
\* either logging function.
SubmissionLines(successLine, sig) ==
    IF sig # Undefined
    THEN Paired(successLine) \o Paired(sig)
    ELSE <<"Transaction submitted, but signature format is unexpected">>

\* Menu choice 'transfer': transferTokens runs up to its first prompt.
ChooseTransfer ==
    /\ pc = "menu"
    /\ ResetInvocation("transfer")
    /\ IF NoSessionOrSecrets(userSession, sessionSecrets)
       THEN /\ out' = <<"Please log in first.">>
            /\ prompts' = <<>>
            /\ BackToMenu
       ELSE /\ out' = <<>>
            /\ prompts' = <<"recipientAddress">>
            /\ pc' = "usdc_recipient"
    /\ UNCHANGED <<startupState, sessionState>>

\* An answer to the recipient prompt: rejected answers are asked again.
EnterUsdcRecipient ==
    /\ pc = "usdc_recipient"
    /\ \E input \in RecipientInputs :
        LET msg == RecipientPromptValidate(input)
        IN  IF msg # Undefined
            THEN /\ lastValidation' = msg
                 /\ lastAnswer' = input
                 /\ UNCHANGED <<pc, recipientAddress, prompts>>
            ELSE /\ lastValidation' = Undefined
                 /\ lastAnswer' = input
                 /\ recipientAddress' = input
                 /\ prompts' = Append(prompts, "amount")
                 /\ pc' = "usdc_amount"
    /\ UNCHANGED <<startupState, details, flow, entry, sessionState, loginLocals,
                   amount, calls, out>>

\* An answer to the amount prompt; once accepted, transferTokens runs up to
\* the createPaymentIntent call (index.ts:343-367).
EnterUsdcAmount ==
    /\ pc = "usdc_amount"
    /\ \E input \in AmountInputs :
        LET msg == AmountPromptValidate(input, "USDC")
        IN  IF msg # Undefined
            THEN /\ lastValidation' = msg
                 /\ lastAnswer' = input
                 /\ UNCHANGED <<pc, amount, out>>
            ELSE /\ lastValidation' = Undefined
                 /\ lastAnswer' = input
                 /\ amount' = input
                 /\ IF AccountAddress(userSession) = Undefined
                    THEN /\ out' = <<"No account address found in session">>
                         /\ BackToMenu
                    ELSE /\ out' = Paired("Creating USDC payment intent")
                         /\ pc' = "usdc_createPaymentIntent"
    /\ UNCHANGED <<startupState, details, flow, entry, sessionState, loginLocals,
                   recipientAddress, calls, prompts>>

\* gridClient.createPaymentIntent resolves or rejects (index.ts:370-397).
CreatePaymentIntent ==
    /\ pc = "usdc_createPaymentIntent"
    /\ \E r \in PayloadOutcomes :
        /\ calls' = Append(calls,
            [op |-> "createPaymentIntent",
             account |-> AccountAddress(userSession),
             amount |-> NumberToString(amountInBaseUnits(amount)),
             grid_user_id |-> userSession.grid_user_id,
             source |-> [account |-> AccountAddress(userSession),
                         currency |-> "usdc", payment_rail |-> "smart_account"],
             destination |-> [address |-> recipientAddress,
                              currency |-> "usdc", payment_rail |-> "smart_account"],
             result |-> [kind |-> r]])
        /\ IF HasPayload(r)
           THEN /\ out' = out \o Paired("Signing USDC transaction")
                /\ pc' = "usdc_sign"
           ELSE /\ out' = Append(out, "USDC transfer failed")
                /\ BackToMenu
    /\ UNCHANGED <<startupState, details, flow, entry, sessionState, loginLocals,
                   transferLocals, prompts>>

\* gridClient.sign resolves or rejects (index.ts:398-405).
Sign ==
    /\ pc = "usdc_sign"
    /\ \E r \in CallOutcomes :
        /\ calls' = Append(calls,
            [op |-> "sign",
             sessionSecrets |-> sessionSecrets,
             session |-> OrElse(userSession.session, userSession.authentication),
             result |-> [kind |-> r]])
        /\ IF r = "returned"
           THEN /\ out' = out \o Paired("Sending USDC transaction")
                /\ pc' = "usdc_send"
           ELSE /\ out' = Append(out, "USDC transfer failed")
                /\ BackToMenu
    /\ UNCHANGED <<startupState, details, flow, entry, sessionState, loginLocals,
                   transferLocals, prompts>>

\* gridClient.send resolves or rejects (index.ts:406-442).
Send ==
    /\ pc = "usdc_send"
    /\ \E r \in SubmissionOutcomes :
        /\ calls' = Append(calls,
            [op |-> "send",
             address |-> AccountAddress(userSession),
             result |-> r])
        /\ CASE r.kind = "response" ->
                out' = out \o SubmissionLines("USDC transfer successful!",
                                              UsdcSignature(r.response))
          [] r.kind = "none" ->
                out' = out \o SubmissionLines("USDC transfer successful!", Undefined)
          [] r.kind = "threw" ->
                out' = Append(out, "USDC transfer failed")
        /\ details' = IF r.kind = "response"
                      THEN details \o ExplorerLinks(UsdcSignature(r.response))
                      ELSE details
    /\ BackToMenu
    /\ UNCHANGED <<startupState, flow, entry, sessionState, loginLocals,
                   transferLocals, prompts>>

-----------------------------------------------------------------------------
(* transferSOLArbitrary (index.ts:445-681) *)

\* txSignature of the SOL flow (index.ts:652-659)
SolSignature(resp) ==
    IF resp.signature # Undefined
    THEN resp.signature
    ELSE OrElse(resp.transaction_signature, resp.data_signature)

\* The transfer names the recipient as fee payer.
SolTransaction_recipientPays(account, recipient, amt) ==
    [feePayer |-> recipient[1], fromPubkey |-> account, toPubkey |-> recipient,
     lamports |-> NumberToString(lamports(amt))]

\* The transaction built locally: one SystemProgram.transfer instruction,
\* the sender as fee payer (index.ts:509-537).  The lamports are kept as
\* the decimal digits of the number.
SolTransaction(account, recipient, amt) ==
    [feePayer |-> account, fromPubkey |-> account, toPubkey |-> recipient,
     lamports |-> NumberToString(lamports(amt))]

\* Menu choice 'arbitrarySOL': transferSOLArbitrary runs up to its first prompt.
ChooseArbitrarySOL ==
    /\ pc = "menu"
    /\ ResetInvocation("arbitrarySOL")
    /\ IF NoSessionOrSecrets(userSession, sessionSecrets)
       THEN /\ out' = <<"Please log in first.">>
            /\ prompts' = <<>>
            /\ BackToMenu
       ELSE /\ out' = <<>>
            /\ prompts' = <<"recipientAddress">>
            /\ pc' = "sol_recipient"
    /\ UNCHANGED <<startupState, sessionState>>

\* An answer to the recipient prompt: rejected answers are asked again.
EnterSolRecipient ==
    /\ pc = "sol_recipient"
    /\ \E input \in RecipientInputs :
        LET msg == RecipientPromptValidate(input)
        IN  IF msg # Undefined
            THEN /\ lastValidation' = msg
                 /\ lastAnswer' = input
                 /\ UNCHANGED <<pc, recipientAddress, prompts>>
            ELSE /\ lastValidation' = Undefined
                 /\ lastAnswer' = input
                 /\ recipientAddress' = input
                 /\ prompts' = Append(prompts, "amount")
                 /\ pc' = "sol_amount"
    /\ UNCHANGED <<startupState, details, flow, entry, sessionState, loginLocals,
                   amount, calls, out>>

\* An answer to the amount prompt; once accepted, transferSOLArbitrary runs
\* up to the getLatestBlockhash call (index.ts:471-530).  The two PublicKey
\* constructions are inside the try block: a throw ends the flow.
EnterSolAmount ==
    /\ pc = "sol_amount"
    /\ \E input \in AmountInputs :
        LET msg == AmountPromptValidate(input, "SOL")
        IN  IF msg # Undefined
            THEN /\ lastValidation' = msg
                 /\ lastAnswer' = input
                 /\ UNCHANGED <<pc, amount, out>>
            ELSE /\ lastValidation' = Undefined
                 /\ lastAnswer' = input
                 /\ amount' = input
                 /\ IF AccountAddress(userSession) = Undefined
                    THEN /\ out' = <<"No account address found in session">>
                         /\ BackToMenu
                    ELSE IF \/ ~PublicKeyOk(<<AccountAddress(userSession)>>)
                            \/ ~PublicKeyOk(recipientAddress)
                    THEN /\ out' = Paired("Creating SOL transfer transaction")
                                     \o <<"SOL transfer failed">>
                         /\ BackToMenu
                    ELSE /\ out' = Paired("Creating SOL transfer transaction")
                         /\ pc' = "sol_getLatestBlockhash"
    /\ UNCHANGED <<startupState, details, flow, entry, sessionState, loginLocals,
                   recipientAddress, calls, prompts>>

\* solanaConnection.getLatestBlockhash resolves or rejects (index.ts:530-583).
GetLatestBlockhash ==
    /\ pc = "sol_getLatestBlockhash"
    /\ \E r \in CallOutcomes :
        /\ calls' = Append(calls, [op |-> "getLatestBlockhash",
                                   result |-> [kind |-> r]])
        /\ IF r = "returned"
           THEN /\ out' = out \o Paired("Preparing transaction with Grid")
                /\ pc' = "sol_prepareArbitraryTransaction"
           ELSE /\ out' = Append(out, "SOL transfer failed")
                /\ BackToMenu
    /\ UNCHANGED <<startupState, details, flow, entry, sessionState, loginLocals,
                   transferLocals, prompts>>

\* gridClient.prepareArbitraryTransaction resolves or rejects (585-631).
PrepareArbitraryTransaction ==
    /\ pc = "sol_prepareArbitraryTransaction"
    /\ \E r \in PayloadOutcomes :
        /\ calls' = Append(calls,
            [op |-> "prepareArbitraryTransaction",
             account |-> AccountAddress(userSession),
             transaction |-> SolTransaction(AccountAddress(userSession),
                                            recipientAddress, amount),
             result |-> [kind |-> r]])
        /\ IF HasPayload(r)
           THEN /\ out' = out \o Paired("Executing SOL transaction")
                /\ pc' = "sol_signAndSend"
           ELSE /\ out' = Append(out, "SOL transfer failed")
                /\ BackToMenu
    /\ UNCHANGED <<startupState, details, flow, entry, sessionState, loginLocals,
                   transferLocals, prompts>>

\* gridClient.signAndSend resolves or rejects (index.ts:633-680).
SignAndSend ==
    /\ pc = "sol_signAndSend"
    /\ \E r \in SubmissionOutcomes :
        /\ calls' = Append(calls,
            [op |-> "signAndSend",
             sessionSecrets |-> sessionSecrets,
             session |-> userSession.authentication,
             address |-> AccountAddress(userSession),
             result |-> r])
        /\ CASE r.kind = "response" ->
                out' = out \o SubmissionLines("SOL transfer successful!",
                                              SolSignature(r.response))
          [] r.kind = "none" ->
                out' = out \o SubmissionLines("SOL transfer successful!", Undefined)
          [] r.kind = "threw" ->
                out' = Append(out, "SOL transfer failed")
        /\ details' = IF r.kind = "response"
                      THEN details \o ExplorerLinks(SolSignature(r.response))
                      ELSE details
    /\ BackToMenu
    /\ UNCHANGED <<startupState, flow, entry, sessionState, loginLocals,
                   transferLocals, prompts>>

-----------------------------------------------------------------------------
(* mainMenu (index.ts:685-721) *)

\* Menu choice 'exit': the loop ends.
ChooseExit ==
    /\ pc = "menu"
    /\ ResetInvocation("exit")
    /\ prompts' = <<>>
    /\ out' = <<"Goodbye!">>
    /\ pc' = "exited"
    /\ UNCHANGED <<startupState, sessionState>>

Next ==
    \/ LoadConfiguration
    \/ InitializeGridClient
    \/ ChooseLogin
    \/ EnterEmail
    \/ InitAuth
    \/ CreateAccount
    \/ RetryInitAuth
    \/ EnterOtp
    \/ GenerateSessionSecrets
    \/ CompleteAuth
    \/ ChooseBalance
    \/ GetAccountBalances
    \/ ChooseTransfer
    \/ EnterUsdcRecipient
    \/ EnterUsdcAmount
    \/ CreatePaymentIntent
    \/ Sign
    \/ Send
    \/ ChooseArbitrarySOL
    \/ EnterSolRecipient
    \/ EnterSolAmount
    \/ GetLatestBlockhash
    \/ PrepareArbitraryTransaction
    \/ SignAndSend
    \/ ChooseExit

Spec == Init /\ [][Next]_vars

TypeOK ==
    /\ secretsGenerated \in 0..MaxSecrets
    /\ userSession \in {Null} \cup SessionResponses
    /\ sessionSecrets \in {Null} \cup {Secrets(n) : n \in 1..MaxSecrets}

-----------------------------------------------------------------------------
(* Vocabulary of the properties *)

CompletionOps == {"completeAuth", "completeAuthAndCreateAccount"}

\* The positions of the calls with operation op in the current invocation.
CallsOf(op) == {i \in 1..Len(calls) : calls[i].op = op}

CompletionCalls == {i \in 1..Len(calls) : calls[i].op \in CompletionOps}

PromptsOf(name) == {i \in 1..Len(prompts) : prompts[i] = name}

Printed(line) == \E i \in 1..Len(out) : out[i] = line

GuardedFlows == {"balance", "transfer", "arbitrarySOL"}

\* The positions of the two transfer flows: at a prompt, and at a remote call.
TransferPromptPcs == {"usdc_recipient", "usdc_amount", "sol_recipient", "sol_amount"}

TransferCallPcs ==
    {"usdc_createPaymentIntent", "usdc_sign", "usdc_send",
     "sol_getLatestBlockhash", "sol_prepareArbitraryTransaction",
     "sol_signAndSend"}

Authenticated == userSession # Null /\ sessionSecrets # Null

\* createAccount resolved in this invocation of the login flow.
CreateAccountSucceeded ==
    \E i \in CallsOf("createAccount") : calls[i].result.kind = "returned"

\* The first initAuth of this invocation failed: it rejected with message m,
\* or resolved without data.
InitAuthFailedWith(m) ==
    /\ Len(calls) >= 1
    /\ calls[1].op = "initAuth"
    /\ \/ calls[1].result.kind = "threw" /\ calls[1].result.message = m
       \/ /\ calls[1].result.kind = "returned"
          /\ ~calls[1].result.data
          /\ m = <<"Failed", "to", "initialize", "authentication">>

InitAuthFailureMessages ==
    ErrorMessages \cup {<<"Failed", "to", "initialize", "authentication">>}

\* The failure messages that contain 'not found' / 'already exists'.
NotFoundMessages == {MsgUserNotFound, MsgEmailNotFound}

AlreadyExistsMessages == {MsgAlreadyExists}

-----------------------------------------------------------------------------
(* C1 *)

\* C1: whenever no session is stored, choosing balance, USDC transfer or SOL
\* transfer from the menu prints 'Please log in first.' and returns to the
\* menu at once: no prompt is shown and no remote call is issued.
C1_NoSessionShortCircuits ==
    [][ (pc = "menu" /\ userSession = Null /\ flow' \in GuardedFlows)
            => /\ pc' = "menu"
               /\ out' = <<"Please log in first.">>
               /\ prompts' = <<>>
               /\ calls' = <<>> ]_vars

\* A transfer was chosen with secrets already generated but no session
\* stored, and was turned away.
C1_Witness ==
    /\ pc = "menu"
    /\ flow = "transfer"
    /\ userSession = Null
    /\ sessionSecrets # Null
    /\ out = <<"Please log in first.">>
    /\ calls = <<>>

-----------------------------------------------------------------------------
(* C2 *)

\* C2: while a transfer flow is past its guard -- at its prompts and, in
\* particular, at each of its remote calls (createPaymentIntent, sign, send,
\* getLatestBlockhash, prepareArbitraryTransaction, signAndSend) -- both the
\* stored session and the stored session secrets are non-null.
C2_TransferHoldsSessionAndSecrets ==
    pc \in TransferPromptPcs \cup TransferCallPcs
        => userSession # Null /\ sessionSecrets # Null

\* The last remote call of a transfer flow is about to be issued.
C2_Witness ==
    /\ pc \in {"usdc_send", "sol_signAndSend"}
    /\ Len(calls) = 2
    /\ Authenticated

-----------------------------------------------------------------------------
(* C3 *)

-----------------------------------------------------------------------------
(* C4 *)

-----------------------------------------------------------------------------
(* C5 *)

\* C5: when init-auth fails with an error not classified as 'not found'
\* (a response without data included), the login flow goes on to the OTP
\* prompt on the existing-user path and never calls createAccount.
C5_OtherFailureStillPromptsOtp ==
    flow = "login" =>
        \A m \in InitAuthFailureMessages :
            (InitAuthFailedWith(m) /\ m \notin NotFoundMessages)
                => /\ PromptsOf("otp") # {}
                   /\ ~isNewUser
                   /\ CallsOf("createAccount") = {}
                   /\ \A i \in CompletionCalls : calls[i].op = "completeAuth"

\* initAuth resolved without data and the OTP was still completed with
\* completeAuth.
C5_Witness ==
    /\ flow = "login"
    /\ Len(calls) = 3
    /\ calls[1].op = "initAuth"
    /\ calls[1].result = Returned(FALSE)
    /\ calls[3].op = "completeAuth"

-----------------------------------------------------------------------------
(* C6 *)

\* The OTP step of this login invocation failed: secret generation or the
\* completion call rejected, or the completion call resolved to nothing.
OtpStepFailed ==
    /\ pc = "menu"
    /\ flow = "login"
    /\ Printed("OTP verification failed")

\* C6: when the OTP step fails, the program is Unauthenticated afterwards:
\* no session is held, so the guards of the balance and transfer flows turn
\* the user away until a new login succeeds.
C6_OtpFailureLeavesUnauthenticated ==
    OtpStepFailed => NoSession(userSession) /\ NoSessionOrSecrets(userSession, sessionSecrets)

-----------------------------------------------------------------------------
(* C7 *)

-----------------------------------------------------------------------------
(* C8 *)

\* C8: one invocation of the login flow prompts for the OTP at most once and
\* issues at most one completion call; after a failed completion the flow is
\* back at the menu, and no OTP prompt or completion call occurs outside the
\* login flow.
C8_SingleOtpAttempt ==
    /\ Cardinality(PromptsOf("otp")) <= 1
    /\ Cardinality(CompletionCalls) <= 1
    /\ flow # "login" => PromptsOf("otp") = {} /\ CompletionCalls = {}
    /\ \A i \in CompletionCalls :
        calls[i].result.kind # "response" => pc = "menu" /\ i = Len(calls)

\* A completion call rejected and the flow is back at the menu after a
\* single OTP prompt.
C8_Witness ==
    /\ pc = "menu"
    /\ flow = "login"
    /\ Cardinality(PromptsOf("otp")) = 1
    /\ \E i \in CompletionCalls : calls[i].result.kind = "threw"

-----------------------------------------------------------------------------
(* C9 *)

\* C9 as stated: the user context of every completion call is the minimal
\* context built from the email just entered, whatever session is stored.
C9_AlwaysMinimalContext ==
    flow = "login" =>
        \A i \in CompletionCalls : calls[i].user = MinimalUserContext(email)

\* C9 as amended: the user context of the completion call is the minimal
\* context (the email just entered, empty signer list) on the new-user path,
\* and on the existing-user path when no session is stored; on the
\* existing-user path with a session stored by an earlier login it is that
\* stored session.
C9_MinimalContextUnlessSessionStored ==
    flow = "login" =>
        \A i \in CompletionCalls :
            /\ calls[1].op = "initAuth" /\ calls[1].email = email
            /\ calls[i].user =
                  IF calls[i].op = "completeAuthAndCreateAccount"
                        \/ entry.userSession = Null
                  THEN [email |-> email, signers |-> <<>>]
                  ELSE entry.userSession

\* A completeAuth call of a second login received the stored session.
C9_Witness ==
    /\ flow = "login"
    /\ entry.userSession # Null
    /\ \E i \in CompletionCalls :
        /\ calls[i].op = "completeAuth"
        /\ calls[i].user = entry.userSession

-----------------------------------------------------------------------------
(* C10 *)

\* s is a decimal literal and nothing else: an optional sign, digits with an
\* optional fraction part, no other character.
IsDecimalLiteral(s) ==
    LET u    == IF s # <<>> /\ Head(s) \in {"+", "-"} THEN Tail(s) ELSE s
        ipd  == DigitPrefix(u)
        r    == SubSeq(u, Len(ipd) + 1, Len(u))
        dot  == r # <<>> /\ Head(r) = "."
        fdd  == IF dot THEN DigitPrefix(Tail(r)) ELSE <<>>
    IN  /\ ipd # <<>> \/ fdd # <<>>
        /\ Len(u) = Len(ipd) + (IF dot THEN 1 + Len(fdd) ELSE 0)

\* s is the literal of a positive finite decimal.
IsPositiveFiniteDecimal(s) ==
    /\ IsDecimalLiteral(s)
    /\ Head(s) # "-"
    /\ \E i \in 1..Len(s) : s[i] \in Digits \ {"0"}

\* C10: an amount string that is not a positive finite decimal is rejected by
\* the amount prompt, so no remote call of a transfer flow is issued with
\* such an amount; "-5" is rejected with 'Amount must be greater than 0'.
C10_OnlyPositiveDecimalsReachCalls ==
    /\ pc \in TransferCallPcs => IsPositiveFiniteDecimal(Trim(amount))
    /\ AmountPromptValidate(<<"-", "5">>, "USDC") = "Amount must be greater than 0"
    /\ AmountPromptValidate(<<"-", "5">>, "SOL") = "Amount must be greater than 0"

-----------------------------------------------------------------------------
(* C11 *)

TransferFlows == {"transfer", "arbitrarySOL"}

AmountPromptPcs == {"usdc_amount", "sol_amount"}

\* The number a typed answer stands for.
TypedNumber(answer) == parseFloat(Trim(answer))

\* 0 < num <= max, for a number kept as an exact decimal.
WithinBounds(num, max) ==
    /\ num.kind = "num"
    /\ ~num.neg
    /\ num.ip # 0 \/ \E i \in 1..Len(num.fd) : num.fd[i] # 0
    /\ \/ num.ip < max
       \/ num.ip = max /\ \A i \in 1..Len(num.fd) : num.fd[i] = 0

\* The largest amount of the token the flow f transfers.
LargestAmount(f) == IF f = "transfer" THEN 1000000 ELSE 10000

\* C11: an amount answer is accepted exactly when the number it stands for
\* is greater than 0 and at most 1,000,000 in the USDC flow, at most 10,000
\* in the SOL flow: every accepted amount lies within the bounds of its own
\* token (the bounds themselves included), every rejected one lies outside.
C11_AcceptedExactlyWithinTokenBounds ==
    /\ (flow \in TransferFlows /\ amount # Empty)
            => WithinBounds(TypedNumber(amount), LargestAmount(flow))
    /\ (pc \in AmountPromptPcs /\ lastValidation # Undefined)
            => ~WithinBounds(TypedNumber(lastAnswer), LargestAmount(flow))

\* The USDC flow accepted 1000000, an amount the SOL bound would reject, and
\* went on to the payment intent.
C11_Witness ==
    /\ flow = "transfer"
    /\ pc = "usdc_createPaymentIntent"
    /\ amount = <<"1", "0", "0", "0", "0", "0", "0">>

-----------------------------------------------------------------------------
(* C12 *)

\* floor(a * 10^decimals) for the exact decimal a a typed answer stands for.
ExactBaseUnits(answer, decimals) ==
    LET num == TypedNumber(answer)
        n   == BigAppendDigits(BigFromNat(num.ip), num.fd)
        k   == Len(num.fd)
    IN  IF k <= decimals
        THEN BigTimesPower(n, 10, decimals - k)
        ELSE BigOverPower(n, 10, k - decimals, FALSE).q

\* C12: the amount of every payment intent is floor(a * 1,000,000) and the
\* lamports of every SOL transfer are floor(a * 1,000,000,000), for the
\* exact decimal a the user typed.
C12_BaseUnitsAreExactFloor ==
    /\ \A i \in CallsOf("createPaymentIntent") :
            calls[i].amount = NumberToString(ExactBaseUnits(amount, 6))
    /\ \A i \in CallsOf("prepareArbitraryTransaction") :
            calls[i].transaction.lamports
                = NumberToString(ExactBaseUnits(amount, 9))

-----------------------------------------------------------------------------
(* C13 *)

\* C13: the recipient string of every payment intent and of every SOL
\* transfer handed to a remote call is itself a string validateSolanaAddress
\* accepts.
C13_RequestAddressesWereValidated ==
    /\ \A i \in CallsOf("createPaymentIntent") :
            validateSolanaAddress(calls[i].destination.address)
    /\ \A i \in CallsOf("prepareArbitraryTransaction") :
            validateSolanaAddress(calls[i].transaction.toPubkey)

-----------------------------------------------------------------------------
(* C14 *)

\* The operations of the calls issued so far by the current invocation.
OpsCalled == [i \in 1..Len(calls) |-> calls[i].op]

IsPrefix(a, b) == Len(a) <= Len(b) /\ a = SubSeq(b, 1, Len(a))

LastLine == IF out = <<>> THEN Undefined ELSE out[Len(out)]

\* C14: the calls of a USDC transfer are a prefix of createPaymentIntent,
\* sign, send; sign follows only a createPaymentIntent that returned a
\* payload, send only a sign that returned; without a payload the flow ends
\* with the failure reported and that single call.
C14_UsdcCallsInOrder ==
    flow = "transfer" =>
        /\ IsPrefix(OpsCalled, <<"createPaymentIntent", "sign", "send">>)
        /\ Len(calls) >= 2 => calls[1].result.kind = "payload"
        /\ Len(calls) >= 3 => calls[2].result.kind = "returned"
        /\ (Len(calls) >= 1 /\ calls[1].result.kind # "payload")
                => /\ Len(calls) = 1
                   /\ pc = "menu"
                   /\ LastLine = "USDC transfer failed"

\* A USDC transfer went through all three calls and was submitted.
C14_Witness ==
    /\ flow = "transfer"
    /\ OpsCalled = <<"createPaymentIntent", "sign", "send">>
    /\ calls[3].result.kind = "response"

-----------------------------------------------------------------------------
(* C15 *)

\* The first element of fields that is present, Undefined when none is.
FirstPresent(fields) ==
    LET present == {i \in 1..Len(fields) : fields[i] # Undefined}
    IN  IF present = {} THEN Undefined
        ELSE fields[CHOOSE i \in present : \A j \in present : i <= j]

SignatureValues == {"SIG_A", "SIG_B", "SIG_C"}

\* The signature a submission result carries in its first present field.
FirstPresentSignature(result) ==
    IF result.kind = "response"
    THEN FirstPresent(<<result.response.transaction_signature,
                        result.response.signature,
                        result.response.data_signature>>)
    ELSE Undefined

\* The lines of out from position n on.
LinesFrom(n) == SubSeq(out, n, Len(out))

\* C15: once send has resolved, the USDC flow is back at the menu having
\* printed the success line with the first present of transaction_signature,
\* signature and data.signature of the response; when none is present it
\* has printed the unexpected-format line, no signature, and no failure.
C15_UsdcReportsFirstPresentSignature ==
    (flow = "transfer" /\ Len(calls) = 3 /\ calls[3].result.kind # "threw")
        => LET sig == FirstPresentSignature(calls[3].result)
           IN  /\ pc = "menu"
               /\ ~Printed("USDC transfer failed")
               /\ IF sig # Undefined
                  THEN LinesFrom(Len(out) - 1)
                            = <<"USDC transfer successful!", sig>>
                  ELSE /\ LastLine = "Transaction submitted, but signature format is unexpected"
                       /\ ~Printed("USDC transfer successful!")
                       /\ \A i \in 1..Len(out) : out[i] \notin SignatureValues

\* send answered with signature and data.signature but no
\* transaction_signature, and the signature field was reported.
C15_Witness ==
    /\ flow = "transfer"
    /\ Len(calls) = 3
    /\ calls[3].result.kind = "response"
    /\ calls[3].result.response.transaction_signature = Undefined
    /\ calls[3].result.response.signature = "SIG_B"
    /\ calls[3].result.response.data_signature = "SIG_C"
    /\ LastLine = "SIG_B"

-----------------------------------------------------------------------------
(* C16 *)

\* C16: the signature the SOL flow reports for a submission response is the
\* one the USDC flow selects for the same response.
C16_SolSelectsSameSignatureAsUsdc ==
    (flow = "arbitrarySOL" /\ Len(calls) = 3
        /\ calls[3].result.kind = "response")
        => LET sig == UsdcSignature(calls[3].result.response)
           IN  IF sig # Undefined
               THEN LinesFrom(Len(out) - 1) = <<"SOL transfer successful!", sig>>
               ELSE LastLine = "Transaction submitted, but signature format is unexpected"

-----------------------------------------------------------------------------
(* C17 *)

\* C17: the calls of a SOL transfer are a prefix of getLatestBlockhash,
\* prepareArbitraryTransaction, signAndSend; the transaction handed to
\* prepareArbitraryTransaction names the session's account address as
\* source and as fee payer; signAndSend follows only a prepare call that
\* returned data, otherwise the flow ends with the failure reported.
C17_SolCallsInOrder ==
    flow = "arbitrarySOL" =>
        /\ IsPrefix(OpsCalled, <<"getLatestBlockhash",
                                 "prepareArbitraryTransaction", "signAndSend">>)
        /\ Len(calls) >= 2
                => /\ calls[1].result.kind = "returned"
                   /\ calls[2].transaction.fromPubkey = AccountAddress(userSession)
                   /\ calls[2].transaction.feePayer = AccountAddress(userSession)
        /\ Len(calls) >= 3 => calls[2].result.kind = "payload"
        /\ (Len(calls) >= 2 /\ calls[2].result.kind # "payload")
                => /\ Len(calls) = 2
                   /\ pc = "menu"
                   /\ LastLine = "SOL transfer failed"

\* A SOL transfer went through all three calls and was submitted.
C17_Witness ==
    /\ flow = "arbitrarySOL"
    /\ OpsCalled = <<"getLatestBlockhash", "prepareArbitraryTransaction",
                     "signAndSend">>
    /\ calls[3].result.kind = "response"

-----------------------------------------------------------------------------
(* C18 *)

\* The call c failed: it rejected, or it answered without what the flow
\* asked for (no data, no payload, success = false, no response).
CallFailed(c) ==
    IF c.op = "generateSessionSecrets" THEN c.result = Null
    ELSE \/ c.result.kind \in {"threw", "failure", "nopayload", "none"}
         \/ /\ c.result.kind = "returned"
            /\ "data" \in DOMAIN c.result
            /\ ~c.result.data

\* C18: a step in which a remote call fails prints at least one line, and
\* leaves the process running on its way back to the menu.
C18_RemoteFailuresAreReported ==
    [][ (Len(calls') = Len(calls) + 1 /\ CallFailed(calls'[Len(calls')]))
            => /\ Len(out') > Len(out)
               /\ pc' # "exited"
               /\ exitCode' = Undefined ]_vars

\* The same for rejected calls only: every rejection is caught and reported.
RejectionsAreReported ==
    [][ (/\ Len(calls') = Len(calls) + 1
         /\ CallFailed(calls'[Len(calls')])
         /\ ~(/\ calls'[Len(calls')].op = "initAuth"
              /\ calls'[Len(calls')].result.kind = "returned"))
            => /\ Len(out') > Len(out)
               /\ pc' # "exited"
               /\ exitCode' = Undefined ]_vars

-----------------------------------------------------------------------------
(* C19 *)

MenuFlows == {"login", "balance", "transfer", "arbitrarySOL"}

\* The positions inside flow f.
FlowPcs(f) ==
    CASE f = "login" ->
            {"login_email", "login_initAuth", "login_createAccount",
             "login_retryInitAuth", "otp_prompt", "otp_generateSecrets",
             "otp_complete"}
      [] f = "balance" -> {"balance_getAccountBalances"}
      [] f = "transfer" ->
            {"usdc_recipient", "usdc_amount", "usdc_createPaymentIntent",
             "usdc_sign", "usdc_send"}
      [] f = "arbitrarySOL" ->
            {"sol_recipient", "sol_amount", "sol_getLatestBlockhash",
             "sol_prepareArbitraryTransaction", "sol_signAndSend"}
      [] OTHER -> {}

\* C19: a step taken at the menu either starts exactly one flow or, on the
\* exit choice, ends the loop with no prompt and no call; a step taken
\* inside a flow stays in that flow or returns to the menu, so the menu is
\* shown only between flows and the loop ends only by the exit choice;
\* nothing runs once the loop has ended.
C19_OneFlowAtATime ==
    [][ /\ pc # "exited"
        /\ pc = "menu"
              => \/ /\ flow' = "exit"
                    /\ pc' = "exited"
                    /\ calls' = <<>>
                    /\ prompts' = <<>>
                 \/ /\ flow' \in MenuFlows
                    /\ pc' \in FlowPcs(flow') \cup {"menu"}
        /\ pc \notin {"start", "main", "menu"}
              => /\ pc \in FlowPcs(flow)
                 /\ flow' = flow
                 /\ pc' \in FlowPcs(flow) \cup {"menu"} ]_vars

\* After a login flow that ran to completion and stored a session, the exit
\* choice was made.
C19_Witness ==
    /\ pc = "exited"
    /\ flow = "exit"
    /\ userSession # Null
    /\ calls = <<>>

-----------------------------------------------------------------------------
(* C20 *)

\* The variable the selected environment takes its key from holds none.
SelectedKeyMissing ==
    IF processEnv.GRID_ENVIRONMENT = "production"
    THEN processEnv.GRID_PRODUCTION_API_KEY \in {Undefined, ""}
    ELSE processEnv.GRID_SANDBOX_API_KEY \in {Undefined, ""}

\* C20: when the key of the selected environment (GRID_PRODUCTION_API_KEY
\* for production, GRID_SANDBOX_API_KEY otherwise) is missing or empty, the
\* process never gets past its start: it ends with status 1, with no API
\* client, no RPC connection, no prompt and no remote call, whatever the
\* other environment's key holds.
C20_MissingKeyExitsBeforeAnything ==
    SelectedKeyMissing =>
        /\ pc \in {"start", "exited"}
        /\ pc = "exited" => exitCode = 1
        /\ gridClient = Null
        /\ solanaConnection = Null
        /\ calls = <<>>
        /\ prompts = <<>>

\* Production was selected without its key while the sandbox key was set,
\* and the process ended with status 1.
C20_Witness ==
    /\ processEnv.GRID_ENVIRONMENT = "production"
    /\ processEnv.GRID_PRODUCTION_API_KEY = ""
    /\ processEnv.GRID_SANDBOX_API_KEY = "KEY_S"
    /\ pc = "exited"
    /\ exitCode = 1

-----------------------------------------------------------------------------
(* C21 *)

\* The environment the process was started for: sandbox unless
\* GRID_ENVIRONMENT names another one.
SelectedEnvironment ==
    IF processEnv.GRID_ENVIRONMENT \in {Undefined, ""} THEN "sandbox"
    ELSE processEnv.GRID_ENVIRONMENT

\* The explorer links printed by the current transfer.
PrintedLinks == IF flow \in TransferFlows THEN details ELSE <<>>

\* The clusters in use: of the RPC connection once it exists, and of every
\* explorer link printed.
ClustersInUse ==
    (IF solanaConnection = Null THEN {} ELSE {solanaConnection.cluster})
        \cup {PrintedLinks[i].cluster : i \in 1..Len(PrintedLinks)}

\* C21: under the sandbox environment the RPC connection and every printed
\* explorer link name the cluster devnet, under production mainnet-beta; an
\* explorer link is printed only by a transfer whose submission call
\* resolved, it is the only one, and its signature is the one the flow
\* reported, a signature field of that call's response.
C21_ClusterAndLinkSignature ==
    /\ SelectedEnvironment = "sandbox" => ClustersInUse \subseteq {"devnet"}
    /\ SelectedEnvironment = "production" => ClustersInUse \subseteq {"mainnet-beta"}
    /\ PrintedLinks # <<>> =>
          /\ Len(PrintedLinks) = 1
          /\ pc = "menu"
          /\ calls[Len(calls)].op \in {"send", "signAndSend"}
          /\ calls[Len(calls)].result.kind = "response"
          /\ PrintedLinks[1].signature = LastLine
          /\ PrintedLinks[1].signature \in
                {calls[Len(calls)].result.response.transaction_signature,
                 calls[Len(calls)].result.response.signature,
                 calls[Len(calls)].result.response.data_signature} \ {Undefined}

\* Under production a SOL transfer was submitted and its link was printed for
\* mainnet-beta.
C21_Witness ==
    /\ SelectedEnvironment = "production"
    /\ flow = "arbitrarySOL"
    /\ solanaConnection # Null
    /\ solanaConnection.cluster = "mainnet-beta"
    /\ details # <<>>
    /\ details[1].cluster = "mainnet-beta"
    /\ details[1].signature \in SignatureValues

-----------------------------------------------------------------------------
(* C22 *)

\* The lines that show a balance.
BalanceShowingLines ==
    {"Found tokens", "Your USDC balance", "No USDC balance found",
     "No token balances found", "SOL balance"}

\* The stored session carries neither address.
SessionWithoutAddress ==
    /\ userSession # Null
    /\ userSession.smart_account_address = Undefined
    /\ userSession.address = Undefined

\* C22: in the balance flow, a session without smart-account address and
\* without plain address is answered with the missing-address report and no
\* remote call; a failure response is reported and nothing that shows a
\* balance is printed; a successful response without a token list is reported
\* as 'no token balances' and not as a failure; in each case the flow is back
\* at the menu and the process goes on.
C22_BalanceFailuresAndEmptyResponses ==
    flow = "balance" =>
        /\ pc \in {"balance_getAccountBalances", "menu"}
        /\ exitCode = Undefined
        /\ SessionWithoutAddress =>
              /\ pc = "menu"
              /\ calls = <<>>
              /\ out = <<"No account address found in session">>
        /\ calls # <<>> =>
              /\ pc = "menu"
              /\ Len(calls) = 1
              /\ calls[1].op = "getAccountBalances"
              /\ calls[1].result.kind = "failure" =>
                    /\ LastLine = "Failed to fetch balance"
                    /\ \A l \in BalanceShowingLines : ~Printed(l)
                    /\ details = <<>>
              /\ (calls[1].result.kind = "success" /\ ~calls[1].result.hasTokens) =>
                    /\ Printed("No token balances found")
                    /\ ~Printed("Failed to fetch balance")
                    /\ details = <<>>

\* getAccountBalances answered successfully without a token list and without
\* a SOL balance.
C22_Witness ==
    /\ flow = "balance"
    /\ pc = "menu"
    /\ Len(calls) = 1
    /\ calls[1].result.kind = "success"
    /\ ~calls[1].result.hasTokens
    /\ ~calls[1].result.sol
    /\ LastLine = "No token balances found"

\* Witness of the missing-address case: a session without any address asked
\* for its balance.
C22_NoAddressReached ==
    /\ flow = "balance"
    /\ SessionWithoutAddress
    /\ out = <<"No account address found in session">>

\* Witness of the failure case.
C22_FailureReached ==
    /\ flow = "balance"
    /\ calls # <<>>
    /\ calls[1].result.kind = "failure"

-----------------------------------------------------------------------------
(* C23 *)

\* The balance of a token as the specification gives it: the pre-computed
\* decimal amount when the response carries one, otherwise the raw amount
\* over ten to the token's own decimals, 0 included, and to 6 only when the
\* response carries no decimals.
ExpectedBalance(token) ==
    IF "amount_decimal" \in DOMAIN token
    THEN [amount_decimal |-> token.amount_decimal]
    ELSE [amount |-> token.amount,
          dividedByTenTo |-> IF "decimals" \in DOMAIN token
                             THEN token.decimals
                             ELSE 6]

\* The tokens of the answer the balance flow received.
ReceivedTokens ==
    IF /\ flow = "balance"
       /\ calls # <<>>
       /\ calls[1].result.kind = "success"
       /\ calls[1].result.hasTokens
    THEN calls[1].result.tokens
    ELSE <<>>

\* C23: every balance printed by the balance flow, in the token list and in
\* the USDC line, is the pre-computed decimal amount of its token when the
\* response carries one, and otherwise the raw amount divided by ten to the
\* token's own decimals whenever the response carries them, 0 included, and
\* by 10^6 only when it carries none.
C23_PrintedBalanceUsesOwnDecimals ==
    /\ \A i \in 1..Len(ReceivedTokens) :
          /\ details[i].symbol = ReceivedTokens[i].symbol
          /\ details[i].balance = ExpectedBalance(ReceivedTokens[i])
    /\ \A i \in 1..Len(details) :
          (flow = "balance" /\ details[i].line = "usdc") =>
              \E j \in 1..Len(ReceivedTokens) :
                  /\ ReceivedTokens[j].symbol = "USDC"
                  /\ details[i].balance = ExpectedBalance(ReceivedTokens[j])

\* The printed balances agree with the specification for every token whose
\* decimals are not 0.
C23_HoldsForNonZeroDecimals ==
    \A i \in 1..Len(ReceivedTokens) :
        ("decimals" \in DOMAIN ReceivedTokens[i] => ReceivedTokens[i].decimals # 0)
            => details[i].balance = ExpectedBalance(ReceivedTokens[i])

-----------------------------------------------------------------------------
(* C24 *)

\* The first of the two values that is present.
Preferred(first, second) == IF first = Undefined THEN second ELSE first

\* The account addresses a remote call was given.
AddressesIn(c) ==
    (IF "address" \in DOMAIN c THEN {c.address} ELSE {})
        \cup (IF "account" \in DOMAIN c THEN {c.account} ELSE {})
        \cup (IF "source" \in DOMAIN c THEN {c.source.account} ELSE {})
        \cup (IF "transaction" \in DOMAIN c
              THEN {c.transaction.fromPubkey, c.transaction.feePayer}
              ELSE {})

\* C24: every remote call of the balance flow and of the two transfer flows
\* is given, as account address, the smart-account address of the session
\* when it has one and its plain address otherwise; the sign call of the
\* USDC flow is given the session's 'session' field when it has one and its
\* 'authentication' field otherwise; the signAndSend call of the SOL flow is
\* always given the 'authentication' field.
C24_AddressAndSigningSession ==
    flow \in GuardedFlows =>
        \A i \in 1..Len(calls) :
            /\ AddressesIn(calls[i]) \subseteq
                  {Preferred(userSession.smart_account_address, userSession.address)}
            /\ calls[i].op = "sign" =>
                  calls[i].session =
                      Preferred(userSession.session, userSession.authentication)
            /\ calls[i].op = "signAndSend" =>
                  calls[i].session = userSession.authentication

\* A session that has a 'session' field, a smart-account address and a plain
\* address submitted a SOL transfer: signAndSend was given the
\* authentication field and the smart-account address.
C24_Witness ==
    /\ flow = "arbitrarySOL"
    /\ userSession # Null
    /\ userSession.session = "SESSION"
    /\ userSession.address = "ADDR2"
    /\ \E i \in 1..Len(calls) :
          /\ calls[i].op = "signAndSend"
          /\ calls[i].session = "AUTH"
          /\ calls[i].address = "ADDR1"

\* Witness of the USDC side: the same session signed with its 'session'
\* field.
C24_UsdcSignedWithSessionField ==
    /\ flow = "transfer"
    /\ \E i \in 1..Len(calls) : calls[i].op = "sign" /\ calls[i].session = "SESSION"

\* Witness of the fallbacks: a session with neither 'session' field nor
\* smart-account address signed with 'authentication' for its plain address.
C24_FallbacksReached ==
    /\ flow = "transfer"
    /\ userSession # Null
    /\ userSession.smart_account_address = Undefined
    /\ \E i \in 1..Len(calls) : calls[i].op = "sign" /\ calls[i].session = "AUTH"
    /\ \E i \in 1..Len(calls) :
          calls[i].op = "createPaymentIntent" /\ calls[i].account = "ADDR1"

-----------------------------------------------------------------------------
(* C25 *)

\* DEBUG holds 'true', or the command line holds --debug or -d.
DebugRequested ==
    \/ processEnv.DEBUG = "true"
    \/ \E i \in 1..Len(argv) : argv[i] \in {"--debug", "-d"}

\* How many times a line was printed by the current invocation.
TimesPrinted(line) == Cardinality({i \in 1..Len(out) : out[i] = line})

\* The step reported by a simpleLog / debugLog pair before each remote call
\* of the transfer flows.
PairedStepBefore(op) ==
    CASE op = "createPaymentIntent" -> "Creating USDC payment intent"
      [] op = "sign" -> "Signing USDC transaction"
      [] op = "send" -> "Sending USDC transaction"
      [] op = "getLatestBlockhash" -> "Creating SOL transfer transaction"
      [] op = "prepareArbitraryTransaction" -> "Preparing transaction with Grid"
      [] op = "signAndSend" -> "Executing SOL transaction"

\* A transfer has just reported a signature.
SignatureReported ==
    /\ flow \in TransferFlows
    /\ pc = "menu"
    /\ LastLine \in SignatureValues

\* C25: debug mode is on exactly when DEBUG equals 'true' or the command
\* line contains --debug or -d.  What debugLog alone prints (the RPC endpoint
\* at start-up) is printed exactly when debug mode is on; what simpleLog
\* alone prints (the explorer link of a reported signature) is printed
\* exactly when it is off; and every step that is reported by a simpleLog
\* and a debugLog call has printed exactly one line, in either mode.
C25_DebugModeAndPairedLogging ==
    /\ (pc = "menu" /\ flow = "none") =>
          out = IF DebugRequested
                THEN <<"Grid SDK Configuration", "Connecting to Solana network",
                       "Welcome to the Grid SDK CLI Tool!">>
                ELSE <<"Grid CLI Environment", "Welcome to the Grid SDK CLI Tool!">>
    /\ SignatureReported => (Len(PrintedLinks) = 1 <=> ~DebugRequested)
    /\ PrintedLinks # <<>> => ~DebugRequested
    /\ flow \in TransferFlows =>
          \A i \in 1..Len(calls) : TimesPrinted(PairedStepBefore(calls[i].op)) = 1

\* Debug mode was switched on by -d alone (DEBUG holds '1'), and a USDC
\* transfer went through its three paired steps and reported a signature.
C25_Witness ==
    /\ processEnv.DEBUG = "1"
    /\ argv = <<"-d">>
    /\ flow = "transfer"
    /\ Len(calls) = 3
    /\ SignatureReported
    /\ TimesPrinted("Sending USDC transaction") = 1

\* Witness of the other side: DEBUG holds '1' and the command line holds
\* another flag, so debug mode is off and the link was printed.
C25_OffReached ==
    /\ processEnv.DEBUG = "1"
    /\ argv = <<"--verbose">>
    /\ SignatureReported
    /\ Len(PrintedLinks) = 1

-----------------------------------------------------------------------------
(* C26 *)

\* C26: whenever the menu is shown with a session stored, the stored secrets
\* are the ones that were sent in the completion call whose response is the
\* stored session; in particular a login attempt that fails while a session
\* is stored does not leave that session paired with the secrets the failed
\* attempt generated.
C26_SecretsBelongToStoredSession ==
    (pc = "menu" /\ userSession # Null) => sessionSecrets = completedWith

\* The pairing holds as long as no login attempt has failed, after secrets
\* were generated, while a session was stored.
C26_HoldsUntilFailedRelogin ==
    (pc = "menu" /\ userSession # Null /\ secretsGenerated = 1)
        => sessionSecrets = completedWith

-----------------------------------------------------------------------------
(* C27 *)

\* What the guard of checkBalance lets through, and what the guards of the
\* two transfer flows let through.
BalanceGuardAdmits == userSession # Null

TransferGuardAdmits == userSession # Null /\ sessionSecrets # Null

\* C27: in every reachable state a stored session comes with stored
\* secrets, so the guard of the balance flow, which tests the session only,
\* and the guards of the transfer flows, which test both, admit the same
\* states.
C27_SessionImpliesSecrets ==
    /\ userSession # Null => sessionSecrets # Null
    /\ BalanceGuardAdmits <=> TransferGuardAdmits

\* A session is stored and a transfer flow was let through its guard to the
\* first prompt.
C27_Witness ==
    /\ userSession # Null
    /\ sessionSecrets # Null
    /\ flow \in TransferFlows
    /\ pc \in {"usdc_recipient", "sol_recipient"}

\* Witness of the other side: secrets are stored without a session (a
\* completion call failed), and both guards turn the user away.
C27_SecretsWithoutSession ==
    /\ userSession = Null
    /\ sessionSecrets # Null
    /\ flow \in GuardedFlows
    /\ out = <<"Please log in first.">>

-----------------------------------------------------------------------------
(* C28 *)

\* The positions of verifyOtp at which it awaits a remote call.
OtpVerificationPcs == {"otp_generateSecrets", "otp_complete"}

\* C28: no step of checkBalance, transferTokens or transferSOLArbitrary,
\* from the menu choice to the return to the menu, changes the stored
\* session or the stored secrets; the only steps that change either are the
\* two remote calls of OTP verification in the login flow; and a stored
\* session is never set back to null.
C28_OnlyOtpVerificationWritesSession ==
    [][ /\ flow' \in GuardedFlows =>
              /\ userSession' = userSession
              /\ sessionSecrets' = sessionSecrets
        /\ (userSession' # userSession \/ sessionSecrets' # sessionSecrets) =>
              /\ flow = "login"
              /\ pc \in OtpVerificationPcs
        /\ userSession # Null => userSession' # Null ]_vars

\* A USDC transfer ran through its three calls with the session and the
\* secrets it started with, after a second login had replaced the secrets.
C28_Witness ==
    /\ flow = "transfer"
    /\ pc = "menu"
    /\ Len(calls) = 3
    /\ userSession # Null
    /\ userSession = entry.userSession
    /\ sessionSecrets = entry.sessionSecrets
    /\ sessionSecrets = [secret |-> 2]

-----------------------------------------------------------------------------
(* C29 *)

\* A decimal numeral without leading zeros stands for a number from 1 to
\* ten to the power n.
FromOneToPowerOfTen(numeral, n) ==
    /\ numeral # <<>>
    /\ numeral[1] # "0"
    /\ \/ Len(numeral) <= n
       \/ /\ Len(numeral) = n + 1
          /\ numeral[1] = "1"
          /\ \A i \in 2..Len(numeral) : numeral[i] = "0"

\* C29: every base-unit amount the transfer flows send out, after the typed
\* amount passed validateAmount, is at least 1 and at most 10^12 in a USDC
\* payment intent and at most 10^13 lamports in a SOL transfer.
C29_BaseUnitsWithinRange ==
    \A i \in 1..Len(calls) :
        /\ calls[i].op = "createPaymentIntent" =>
              FromOneToPowerOfTen(calls[i].amount, 12)
        /\ calls[i].op = "prepareArbitraryTransaction" =>
              FromOneToPowerOfTen(calls[i].transaction.lamports, 13)

\* The upper bounds alone hold: no request exceeds 10^12 base units or 10^13
\* lamports.
C29_UpperBoundsHold ==
    \A i \in 1..Len(calls) :
        /\ calls[i].op = "createPaymentIntent" =>
              \/ calls[i].amount = <<"0">>
              \/ FromOneToPowerOfTen(calls[i].amount, 12)
        /\ calls[i].op = "prepareArbitraryTransaction" =>
              \/ calls[i].transaction.lamports = <<"0">>
              \/ FromOneToPowerOfTen(calls[i].transaction.lamports, 13)

\* The largest accepted amounts reach the bounds: 10^12 base units of USDC.
C29_UpperBoundReached ==
    \E i \in 1..Len(calls) :
        /\ calls[i].op = "createPaymentIntent"
        /\ Len(calls[i].amount) = 13

-----------------------------------------------------------------------------
(* C30 *)

\* The environment a key was issued for.
EnvironmentOfKey(key) ==
    CASE key = "KEY_S" -> "sandbox"
      [] key = "KEY_P" -> "production"

\* The environment a cluster belongs to.
EnvironmentOfCluster(cluster) ==
    CASE cluster = "devnet" -> "sandbox"
      [] cluster = "mainnet-beta" -> "production"

\* C30: whatever GRID_ENVIRONMENT holds, once the API client and the RPC
\* connection exist, the key of the client and the cluster of the connection
\* belong to the same environment: the sandbox key is never used next to
\* mainnet-beta, nor the production key next to devnet.
C30_KeyAndNetworkOfSameEnvironment ==
    (gridClient # Null /\ solanaConnection # Null) =>
        EnvironmentOfKey(gridClient.apiKey)
            = EnvironmentOfCluster(solanaConnection.cluster)

\* Key and network agree whenever GRID_ENVIRONMENT is unset or holds sandbox
\* or production.
C30_HoldsForNamedEnvironments ==
    (/\ gridClient # Null
     /\ solanaConnection # Null
     /\ processEnv.GRID_ENVIRONMENT \in {Undefined, "sandbox", "production"}) =>
        EnvironmentOfKey(gridClient.apiKey)
            = EnvironmentOfCluster(solanaConnection.cluster)

====
